---------------------------- MODULE Spec2Model ----------------------------
(***************************************************************************)
(* RecordingHandler (esp32-camara-media/recording_handler.cpp): the        *)
(* AVI/MJPEG recorder.  Files on the SD card are byte sequences; the       *)
(* recorder's fields are the variables below, named as in the class.       *)
(***************************************************************************)
EXTENDS Integers, Sequences, FiniteSets, TLC

(***************************************************************************)
(* Bounds of the model.                                                    *)
(***************************************************************************)
MaxFrameLen == 2        \* camera frames carry 1..MaxFrameLen payload bytes
MaxTicks == 1           \* clock advances explored per boot
MaxSessions == 2        \* successful startRecording calls explored
MaxFramesWritten == 3   \* frames appended per boot
MaxPowerLosses == 1     \* power losses explored
MaxShort == 1           \* bytes a failing storage write may drop (SpecFaulty)
MaxEdgeCut == 1         \* power losses inside header and index: this close to their ends
MaxNameLen == 4          \* characters of a filename given to deleteRecording
MaxPaceSessions == 1    \* sessions followed by the pacing specification

(***************************************************************************)
(* Program constants.                                                      *)
(***************************************************************************)
MAX_RECORDING_SECONDS == 300
INDEX_SLACK == 10
MIN_FPS == 1
MAX_FPS == 15
CTOR_FPS == 10
CTOR_FRAME_INTERVAL == 100
MOVI_DATA_START == 224
REPAIR_MAX_FILES == 50

(***************************************************************************)
(* Binary helpers: little-endian encoders and four-character codes.        *)
(***************************************************************************)
LE32(v) == << v % 256, (v \div 256) % 256, (v \div 65536) % 256,
              (v \div 16777216) % 256 >>
LE16(v) == << v % 256, (v \div 256) % 256 >>
\* write32LE(0xFFFFFFFF): the value does not fit TLC's integers, its bytes do
LE32_FFFFFFFF == << 255, 255, 255, 255 >>

FCC_RIFF == << 82, 73, 70, 70 >>
FCC_AVI  == << 65, 86, 73, 32 >>
FCC_LIST == << 76, 73, 83, 84 >>
FCC_hdrl == << 104, 100, 114, 108 >>
FCC_avih == << 97, 118, 105, 104 >>
FCC_strl == << 115, 116, 114, 108 >>
FCC_strh == << 115, 116, 114, 104 >>
FCC_vids == << 118, 105, 100, 115 >>
FCC_MJPG == << 77, 74, 80, 71 >>
FCC_strf == << 115, 116, 114, 102 >>
FCC_movi == << 109, 111, 118, 105 >>
FCC_00dc == << 48, 48, 100, 99 >>
FCC_idx1 == << 105, 100, 120, 49 >>

RECURSIVE Flatten(_)
\* the bytes of a sequence of write calls, in order
Flatten(ws) == IF ws = << >> THEN << >> ELSE Head(ws) \o Flatten(Tail(ws))

Prefix(b, n) == SubSeq(b, 1, n)

\* read a little-endian 32-bit value at byte offset off (0-based)
Rd32(b, off) == b[off + 1] + 256 * b[off + 2] + 65536 * b[off + 3]
                + 16777216 * b[off + 4]

Zeros(n) == [i \in 1..n |-> 0]

\* seek(off); write(4 bytes): overwrite in place; past the end of the file
\* the write extends it
Patch32(b, off, v) ==
    IF off + 4 <= Len(b)
    THEN SubSeq(b, 1, off) \o LE32(v) \o SubSeq(b, off + 5, Len(b))
    ELSE IF off <= Len(b) THEN SubSeq(b, 1, off) \o LE32(v)
    ELSE b \o Zeros(off - Len(b)) \o LE32(v)

(***************************************************************************)
(* writeAVIHeader: the write calls, cut where the code records an offset.  *)
(***************************************************************************)
UsPerFrame(f) == 1000000 \div f
MaxBytesPerSec(f) == f * 15000

\* The write calls between two offset captures, in the code's order.  Runs
\* of calls that write fixed values are flattened once.
HdrRiff == FCC_RIFF
AvihFixed1 ==
    Flatten(<< LE32(0), FCC_AVI, FCC_LIST, LE32(192), FCC_hdrl, FCC_avih, LE32(56) >>)
\* the avih chunk without its padding-granularity word
AvihFixed2_short == LE32(16)
AvihFixed2 == Flatten(<< LE32(0), LE32(16) >>)
HdrAvih(w, h, f) ==
    AvihFixed1 \o LE32(UsPerFrame(f)) \o LE32(MaxBytesPerSec(f)) \o AvihFixed2
StrhFixed1 == Flatten(<< LE32(0), LE32(0), LE32(1) >>)
StrhFixed2 ==
    Flatten(<< LE32(0), LE32(0), LE32(0), LE32(0),
               FCC_LIST, LE32(116), FCC_strl,
               FCC_strh, LE32(56), FCC_vids, FCC_MJPG, LE32(0), LE16(0), LE16(0),
               LE32(0), LE32(1) >>)
HdrStrh(w, h, f) ==
    StrhFixed1 \o LE32(MaxBytesPerSec(f)) \o LE32(w) \o LE32(h) \o StrhFixed2
    \o LE32(f) \o LE32(0)
StrfFixed1 == Flatten(<< LE32_FFFFFFFF, LE32(0), LE16(0), LE16(0) >>)
StrfFixed2 == Flatten(<< FCC_strf, LE32(40), LE32(40) >>)
StrfFixed3 == Flatten(<< LE16(1), LE16(24), FCC_MJPG >>)
StrfFixed4 == Flatten(<< LE32(0), LE32(0), LE32(0), LE32(0), FCC_LIST >>)
HdrStrf(w, h, f) ==
    LE32(0) \o LE32(MaxBytesPerSec(f)) \o StrfFixed1
    \o LE16(w % 65536) \o LE16(h % 65536) \o StrfFixed2 \o LE32(w) \o LE32(h)
    \o StrfFixed3 \o LE32(w * h * 3) \o StrfFixed4
HdrMovi == LE32(0) \o FCC_movi

HeaderBytes(w, h, f) ==
    HdrRiff \o HdrAvih(w, h, f) \o HdrStrh(w, h, f) \o HdrStrf(w, h, f) \o HdrMovi

\* the value of _totalBytes when each placeholder is written (base = 0)
RiffSizeOffsetAt(base) == base + Len(HdrRiff)
AviFramesOffsetAt(base, w, h, f) == RiffSizeOffsetAt(base) + Len(HdrAvih(w, h, f))
StrhFramesOffsetAt(base, w, h, f) ==
    AviFramesOffsetAt(base, w, h, f) + Len(HdrStrh(w, h, f))
MoviListSizeOffsetAt(base, w, h, f) ==
    StrhFramesOffsetAt(base, w, h, f) + Len(HdrStrf(w, h, f))

(***************************************************************************)
(* Camera frames (external collaborator): a JPEG of len bytes.             *)
(***************************************************************************)
JpegByte(i) == IF i = 1 THEN 255 ELSE IF i = 2 THEN 216 ELSE 217
JpegData(len) == [i \in 1..len |-> JpegByte(i)]
NoFrame == [len |-> -1, width |-> 0, height |-> 0]
Frames == [len : 1..MaxFrameLen, width : {320}, height : {240}]

(***************************************************************************)
(* writeFrame: the '00dc' chunk and the byte counter.                      *)
(***************************************************************************)
PadLen(len) == IF len % 2 # 0 THEN 1 ELSE 0
\* a chunk written without the alignment byte
ChunkBytes_unpadded(len) == FCC_00dc \o LE32(len) \o JpegData(len)
ChunkBytes(len) ==
    FCC_00dc \o LE32(len) \o JpegData(len)
    \o (IF len % 2 # 0 THEN << 0 >> ELSE << >>)
\* _totalBytes after writeFrame: 4 + 4 + len (+ 1)
BytesAfterFrame(tb, len) == tb + 4 + 4 + len + PadLen(len)


(***************************************************************************)
(* State.                                                                  *)
(***************************************************************************)
VARIABLES
    \* RecordingHandler's fields
    isRecording, fps, frameInterval, startTime, lastFrameTime, frameCount,
    currentFilename, aviFile,
    riffSizeOffset, aviFramesOffset, strhFramesOffset, moviListSizeOffset,
    totalBytes, width, height,
    frameIndex,     \* the _frameIndex pointer: "nullptr" or "allocated"
    indexSlots,     \* the entries written into the buffer, slot 0 first
    maxFrames,
    \* collaborators
    files,          \* SD card: path -> bytes, for the paths that exist
    recDir,         \* the recordings directory exists
    sdInitialized,  \* sdCard.isInitialized()
    now,            \* millis()
    wallClock,      \* wall-clock time in ms, kept across reboots
    borrowed,       \* frame buffers held and not yet released
    phase,          \* "setup" after power-up, then "loop"
    \* history of the run
    lastCall,       \* the last public call: operation, result, camera used
    sessionSizes,   \* payload lengths appended in the current session
    sessionPaths,   \* the paths of the sessions started so far, in order
    framesWritten,  \* frames appended since power-up
    ticks, powerLosses,
    cutPath,        \* the path of the session active at the last power loss
    deleteArg       \* the filename given to the last deleteRecording

recVars == << isRecording, fps, frameInterval, startTime, lastFrameTime,
              frameCount, currentFilename, aviFile, riffSizeOffset,
              aviFramesOffset, strhFramesOffset, moviListSizeOffset,
              totalBytes, width, height, frameIndex, indexSlots, maxFrames >>
envVars == << files, recDir, sdInitialized, now, wallClock, borrowed, phase >>
histVars == << lastCall, sessionSizes, sessionPaths, framesWritten, ticks, powerLosses, cutPath, deleteArg >>
vars == << recVars, envVars, histVars >>

NoName == [kind |-> "", stamp |-> 0]
\* "/grabaciones/REC_YYYY-MM-DD_HH-MM-SS.avi": one name per wall-clock second
TimeName(ms) == [kind |-> "REC_time", stamp |-> ms \div 1000]
\* "/grabaciones/REC_<millis>.avi"
MillisName(ms) == [kind |-> "REC_millis", stamp |-> ms]
\* a file the recorder did not write: entry k of CardPaths
CardName(k) == [kind |-> "card", stamp |-> k]

(***************************************************************************)
(* File names and paths as texts (sequences of characters).                *)
(***************************************************************************)
RECORDINGS_FOLDER == << "g", "r", "a", "b", "a", "c", "i", "o", "n", "e", "s" >>
TXT_REC == << "R", "E", "C", "_" >>
TXT_avi == << ".", "a", "v", "i" >>
TXT_AVI == << ".", "A", "V", "I" >>

DigitChar(d) == << "0", "1", "2", "3", "4", "5", "6", "7", "8", "9" >>[d + 1]
RECURSIVE Digits(_)
\* String(n): the decimal digits of n
Digits(n) == IF n < 10 THEN << DigitChar(n) >>
             ELSE Digits(n \div 10) \o << DigitChar(n % 10) >>

\* the paths of the files on the card that the recorder did not write, as
\* components below the root
CardPaths ==
    << << << "a" >> >>,
       << RECORDINGS_FOLDER, << "a" >> >>,
       << RECORDINGS_FOLDER, << "a", "a" >>, << "a" >> >>,
       << RECORDINGS_FOLDER, << "x" >> \o TXT_AVI >>,
       << RECORDINGS_FOLDER, << "x" >> \o TXT_avi \o << ".", "t" >> >> >>

\* "%02d"
TwoDigits(n) == << DigitChar((n \div 10) % 10), DigitChar(n % 10) >>

\* the day the wall clock counts its seconds from, as "%04d-%02d-%02d"
TXT_DAY == << "2", "0", "2", "4", "-", "0", "1", "-", "0", "1" >>

\* the name startRecording formats: "REC_<date>_<hh>-<mm>-<ss>.avi" for the
\* wall-clock second stamp of that day, or "REC_<millis>.avi"
FileNameOf(p) ==
    IF p.kind = "REC_time"
    THEN TXT_REC \o TXT_DAY \o << "_" >> \o TwoDigits((p.stamp \div 3600) % 24)
         \o << "-" >> \o TwoDigits((p.stamp \div 60) % 60)
         \o << "-" >> \o TwoDigits(p.stamp % 60) \o TXT_avi
    ELSE TXT_REC \o Digits(p.stamp) \o TXT_avi

\* the components of the path of a file on the card
PathOf(p) ==
    IF p.kind = "card" THEN CardPaths[p.stamp]
    ELSE << RECORDINGS_FOLDER, FileNameOf(p) >>

EndsWith(s, suffix) ==
    /\ Len(s) >= Len(suffix)
    /\ SubSeq(s, Len(s) - Len(suffix) + 1, Len(s)) = suffix

\* a check that lets every filename pass
HasDotDot_off(s) == FALSE
\* filename.indexOf("..") >= 0
HasDotDot(s) == \E i \in 1..(Len(s) - 1) : s[i] = "." /\ s[i + 1] = "."

RECURSIVE SplitPath(_, _, _)
\* the components of a path text: the pieces between '/' characters
SplitPath(s, i, piece) ==
    IF i > Len(s) THEN << piece >>
    ELSE IF s[i] = "/" THEN << piece >> \o SplitPath(s, i + 1, << >>)
    ELSE SplitPath(s, i + 1, Append(piece, s[i]))

RECURSIVE ResolvePath(_, _)
\* the file system's walk over the components: empty and "." stay, ".."
\* goes up
ResolvePath(comps, at) ==
    IF comps = << >> THEN at
    ELSE IF Head(comps) = << >> \/ Head(comps) = << "." >>
         THEN ResolvePath(Tail(comps), at)
    ELSE IF Head(comps) = << ".", "." >>
         THEN ResolvePath(Tail(comps),
                          IF at = << >> THEN at ELSE SubSeq(at, 1, Len(at) - 1))
    ELSE ResolvePath(Tail(comps), Append(at, Head(comps)))

\* note: what the call met ("" when nothing the result does not tell)
Call(op, ret, captured) ==
    [op |-> op, ret |-> ret, captured |-> captured, note |-> ""]
Noted(call, note) == [call EXCEPT !.note = note]

\* the constructor's member initialisers
CtorFields ==
    /\ isRecording = FALSE
    /\ fps = CTOR_FPS
    /\ frameInterval = CTOR_FRAME_INTERVAL
    /\ frameCount = 0
    /\ currentFilename = NoName
    /\ aviFile = FALSE
    /\ riffSizeOffset = 0
    /\ aviFramesOffset = 0
    /\ strhFramesOffset = 0
    /\ moviListSizeOffset = 0
    /\ totalBytes = 0
    /\ width = 0
    /\ height = 0
    /\ frameIndex = "nullptr"
    /\ indexSlots = << >>
    /\ maxFrames = 0

CtorState ==
    /\ CtorFields
    /\ startTime = 0
    /\ lastFrameTime = 0

Init ==
    /\ CtorState
    /\ files = << >>
    /\ recDir = FALSE
    /\ sdInitialized = FALSE
    /\ now = 0
    /\ wallClock = 0
    /\ borrowed = 0
    /\ phase = "setup"
    /\ lastCall = Call("boot", TRUE, FALSE)
    /\ sessionSizes = << >>
    /\ sessionPaths = << >>
    /\ framesWritten = 0
    /\ ticks = 0
    /\ powerLosses = 0
    /\ cutPath = NoName
    /\ deleteArg = << >>

(***************************************************************************)
(* SD card operations.                                                     *)
(***************************************************************************)
FsPut(fs, path, bytes) ==
    [p \in (DOMAIN fs) \cup {path} |-> IF p = path THEN bytes ELSE fs[p]]
FsRemove(fs, path) == [p \in (DOMAIN fs) \ {path} |-> fs[p]]
FsAppend(fs, path, bytes) ==
    IF path \in DOMAIN fs THEN FsPut(fs, path, fs[path] \o bytes) ELSE fs

(***************************************************************************)
(* tryRepairAVI.                                                           *)
(***************************************************************************)
Deleted == << -1 >>

HasTag00dc(b, pos) ==
    /\ b[pos + 1] = FCC_00dc[1]
    /\ b[pos + 2] = FCC_00dc[2]
    /\ b[pos + 3] = FCC_00dc[3]
    /\ b[pos + 4] = FCC_00dc[4]

\* A uint32_t read from the file, as its two 16-bit halves: the values a
\* file may hold do not all fit TLC's integers.
Rd32w(b, off) == [lo |-> b[off + 1] + 256 * b[off + 2],
                  hi |-> b[off + 3] + 256 * b[off + 4]]
\* x + n in 32-bit unsigned arithmetic, for 0 <= n < 2^31
Add32(x, n) ==
    LET lo == x.lo + (n % 65536)
        hi == x.hi + (n \div 65536) + (lo \div 65536)
    IN [lo |-> lo % 65536, hi |-> hi % 65536]
\* x > n and x = n, for 0 <= n < 2^31
Gt32(x, n) == x.hi > n \div 65536 \/ (x.hi = n \div 65536 /\ x.lo > n % 65536)
Eq32(x, n) == x.hi = n \div 65536 /\ x.lo = n % 65536
\* the integer x holds, when it is below 2^31
Int32(x) == x.hi * 65536 + x.lo

\* x - y in 32-bit unsigned arithmetic
Sub32(x, y) ==
    LET lo == x.lo - y.lo
        hi == x.hi - y.hi - (IF lo < 0 THEN 1 ELSE 0)
    IN [lo |-> (lo + 65536) % 65536, hi |-> (hi + 65536) % 65536]

\* a scan that also rejects a chunk ending exactly at the end of the file
ChunkTruncated_strict(pos, chunkSize, fileSize) ==
    Gt32(Add32(chunkSize, pos + 8), fileSize) \/ Eq32(Add32(chunkSize, pos + 8), fileSize)
\* pos + 8 + chunkSize > (uint32_t)fileSize, the sum in uint32_t
ChunkTruncated(pos, chunkSize, fileSize) ==
    Gt32(Add32(chunkSize, pos + 8), fileSize)

\* pos += 8 + chunkSize; if (chunkSize % 2) pos++; taken when the sum is not
\* above the file size
NextChunkPos(pos, chunkSize) ==
    Int32(Add32(chunkSize, pos + 8)) + (IF chunkSize.lo % 2 # 0 THEN 1 ELSE 0)

\* the scan never leaves its loop
Hangs == -1

RECURSIVE ScanFrom(_, _, _, _)
\* the scan loop from pos on, seen the positions it has been at: the number
\* of '00dc' chunks it counts, or Hangs when it comes back to a position
ScanFrom(b, pos, count, seen) ==
    IF pos \in seen THEN Hangs
    ELSE IF ~(pos + 8 <= Len(b)) THEN count
    ELSE IF ~HasTag00dc(b, pos) THEN count
    ELSE IF ChunkTruncated(pos, Rd32w(b, pos + 4), Len(b)) THEN count
    ELSE ScanFrom(b, NextChunkPos(pos, Rd32w(b, pos + 4)), count + 1,
                  seen \cup {pos})

ScanFrames(b, pos, count) == ScanFrom(b, pos, count, {})

\* a repair that writes the frame-data-list size four bytes late
RepairPatched_shifted(b, n) ==
    Patch32(Patch32(Patch32(Patch32(b, 4, Len(b) - 8), 220, Len(b) - 220),
                    48, n), 140, n)
\* a repair that writes the file size as the RIFF size
RepairPatched_whole(b, n) ==
    Patch32(Patch32(Patch32(Patch32(b, 4, Len(b)), 216, Len(b) - 220),
                    48, n), 140, n)
RepairPatched(b, n) ==
    Patch32(Patch32(Patch32(Patch32(b, 4, Len(b) - 8), 216, Len(b) - 220),
                    48, n), 140, n)

\* tryRepairAVI does not return
Hung == << -2 >>

\* a repair that does not look at the frame count the file already holds
RepairOutcome_rescan(b) ==
    IF Len(b) < MOVI_DATA_START THEN Deleted
    ELSE LET frames == ScanFrames(b, MOVI_DATA_START, 0)
         IN IF frames = Hangs THEN Hung
            ELSE IF frames = 0 THEN Deleted ELSE RepairPatched(b, frames)
\* the file after tryRepairAVI, or Deleted, or Hung
RepairOutcome(b) ==
    IF Len(b) < MOVI_DATA_START THEN Deleted
    ELSE IF Rd32(b, 48) # 0 THEN b
    ELSE LET frames == ScanFrames(b, MOVI_DATA_START, 0)
         IN IF frames = Hangs THEN Hung
            ELSE IF frames = 0 THEN Deleted ELSE RepairPatched(b, frames)

\* what tryRepairAVI returns: true when it patched the file
RepairReturns(b) ==
    /\ Len(b) >= MOVI_DATA_START
    /\ Rd32(b, 48) = 0
    /\ ScanFrames(b, MOVI_DATA_START, 0) >= 1

\* repairRecordings over the paths it collected: tryRepairAVI on each, and
\* each call reads and writes the file of its own path only
RepairAll(fs, paths) ==
    LET kept == {p \in DOMAIN fs : p \notin paths \/ RepairOutcome(fs[p]) # Deleted}
    IN [p \in kept |-> IF p \in paths THEN RepairOutcome(fs[p]) ELSE fs[p]]

\* an entry repairRecordings collects: a file directly in the recordings
\* directory whose path ends in ".avi" or ".AVI"
IsRecordingEntry(p) ==
    /\ Len(PathOf(p)) = 2
    /\ PathOf(p)[1] = RECORDINGS_FOLDER
    /\ EndsWith(PathOf(p)[2], TXT_avi) \/ EndsWith(PathOf(p)[2], TXT_AVI)

\* the order in which the directory lists its entries: the order in which
\* they were created, which for the names of the model is that of their stamps
KindRank(kind) == IF kind = "card" THEN 0 ELSE IF kind = "REC_time" THEN 1 ELSE 2
ListedBefore(q, p) ==
    \/ q.stamp < p.stamp
    \/ q.stamp = p.stamp /\ KindRank(q.kind) < KindRank(p.kind)

\* the paths repairRecordings collects: the first 50 entries the directory
\* lists (a set of one batch: the listing is the same in every pass)
RepairBatches(fs) ==
    LET entries == {p \in DOMAIN fs : IsRecordingEntry(p)}
    IN {{p \in entries :
           Cardinality({q \in entries : ListedBefore(q, p)}) < REPAIR_MAX_FILES}}

\* no call of the pass is caught in its scan loop
RepairReturnsAll(fs, paths) == \A p \in paths : RepairOutcome(fs[p]) # Hung

(***************************************************************************)
(* Inputs.                                                                 *)
(***************************************************************************)
FpsArgs == { 0, 20 }
\* what a word of the heap may hold when read outside the written slots
HeapWords == { 0, 1 }
\* the driver's loop() is explored in every boot but the one after the last
\* power loss explored, where only setup() runs
InLoop == phase = "loop" /\ powerLosses < MaxPowerLosses

(***************************************************************************)
(* startRecording.  Each path of the call is split in two conjuncts: the   *)
(* recorder's counters and clock readings, and the bytes (the card, the    *)
(* index slots).                                                           *)
(***************************************************************************)
\* a writeFrame that leaves the frame it wrote uncounted
CountAfterFrame_kept(fc) == fc
\* _frameCount++ at the end of writeFrame
CountAfterFrame(fc) == fc + 1

\* camera.capturePhoto returned a frame: one more buffer is held
Borrow(held) == held + 1
\* a recorder that keeps the frame
Release_kept(held) == held
\* camera.releaseFrame(fb)
Release(held) == held - 1

\* a recorder that lacks the active-session check
AlreadyActive_unchecked == FALSE
AlreadyActive == isRecording

ClampFps(f) == IF f < MIN_FPS THEN MIN_FPS ELSE IF f > MAX_FPS THEN MAX_FPS ELSE f
FrameIntervalOf(f) == 1000 \div f
MaxFramesOf(f) == MAX_RECORDING_SECONDS * f + INDEX_SLACK

\* a recorder that does not reset the byte counter on start
SessionBase_carried == totalBytes
\* _totalBytes = 0 before the header is written
SessionBase == 0

RecordingName(synced) == IF synced THEN TimeName(wallClock) ELSE MillisName(now)

\* writeFrame's index entry, recorded when the buffer exists and has room:
\* slot fc of buffer fi (capacity mf) at byte count tb
IndexAfterFrame(slots, fi, fc, mf, tb, len) ==
    IF fi = "allocated" /\ fc < mf
    THEN Append(slots, [offset |-> tb - MOVI_DATA_START, size |-> len])
    ELSE slots

\* a call that returns leaving the recorder and the card as they were
ReturnsUntouched(op, ret, captured) ==
    /\ lastCall' = Call(op, ret, captured)
    /\ UNCHANGED << recVars, envVars, sessionSizes, sessionPaths, framesWritten,
                    ticks, powerLosses, cutPath, deleteArg >>

StartOpenFailed(fb) ==
    /\ width' = fb.width
    /\ height' = fb.height
    /\ recDir' = TRUE
    /\ aviFile' = FALSE
    /\ lastCall' = Call("startRecording", FALSE, TRUE)
    /\ UNCHANGED << isRecording, fps, frameInterval, startTime, lastFrameTime,
                    frameCount, currentFilename, riffSizeOffset, aviFramesOffset,
                    strhFramesOffset, moviListSizeOffset, totalBytes, frameIndex,
                    indexSlots, maxFrames >>
    /\ borrowed' = Release(Borrow(borrowed))
    /\ UNCHANGED << files, sdInitialized, now, wallClock, phase >>
    /\ UNCHANGED << sessionSizes, sessionPaths, framesWritten, ticks, powerLosses, cutPath, deleteArg >>

\* the successful path: every field but the index slots
StartCounters(fpsArg, fb, synced, allocOk) ==
    LET f == ClampFps(fpsArg)
        headerEnd == SessionBase + Len(HeaderBytes(fb.width, fb.height, f))
    IN
    /\ width' = fb.width
    /\ height' = fb.height
    /\ recDir' = TRUE
    /\ aviFile' = TRUE
    /\ currentFilename' = RecordingName(synced)
    /\ fps' = f
    /\ frameInterval' = FrameIntervalOf(f)
    /\ maxFrames' = MaxFramesOf(f)
    /\ frameIndex' = IF allocOk THEN "allocated" ELSE "nullptr"
    /\ riffSizeOffset' = RiffSizeOffsetAt(SessionBase)
    /\ aviFramesOffset' = AviFramesOffsetAt(SessionBase, fb.width, fb.height, f)
    /\ strhFramesOffset' = StrhFramesOffsetAt(SessionBase, fb.width, fb.height, f)
    /\ moviListSizeOffset' = MoviListSizeOffsetAt(SessionBase, fb.width, fb.height, f)
    /\ totalBytes' = BytesAfterFrame(headerEnd, fb.len)
    /\ frameCount' = CountAfterFrame(0)
    /\ startTime' = now
    /\ lastFrameTime' = now
    /\ isRecording' = TRUE
    /\ lastCall' = Call("startRecording", TRUE, TRUE)
    /\ sessionPaths' = Append(sessionPaths, RecordingName(synced))
    /\ borrowed' = Release(Borrow(borrowed))
    /\ UNCHANGED << sdInitialized, now, wallClock, phase, powerLosses, cutPath, deleteArg >>

\* the successful path: the file created (truncating) and written, the first
\* index slot; the card fails to store the last `short` bytes
StartBytes(fpsArg, fb, synced, allocOk, short) ==
    LET f == ClampFps(fpsArg)
        header == HeaderBytes(fb.width, fb.height, f)
        stream == header \o ChunkBytes(fb.len)
    IN
    /\ indexSlots' = IndexAfterFrame(<< >>, IF allocOk THEN "allocated" ELSE "nullptr",
                                     0, MaxFramesOf(f), SessionBase + Len(header),
                                     fb.len)
    /\ files' = FsPut(files, RecordingName(synced), Prefix(stream, Len(stream) - short))
    /\ sessionSizes' = << fb.len >>

StartSucceeds(fpsArg, fb, synced, allocOk, short) ==
    /\ StartCounters(fpsArg, fb, synced, allocOk)
    /\ StartBytes(fpsArg, fb, synced, allocOk, short)
    /\ framesWritten' = framesWritten + 1
    /\ UNCHANGED ticks

\* inputs are drawn where the code reads them: the probe frame, the open,
\* the wall clock, the index allocation, the bytes the card fails to store
StartRecording(fpsArg, maxShort) ==
    /\ InLoop
    /\ Len(sessionPaths) < MaxSessions
    /\ framesWritten < MaxFramesWritten
    /\ IF AlreadyActive THEN ReturnsUntouched("startRecording", FALSE, FALSE)
       ELSE IF ~sdInitialized THEN ReturnsUntouched("startRecording", FALSE, FALSE)
       ELSE \E fb \in Frames \cup {NoFrame} :
            IF fb = NoFrame THEN ReturnsUntouched("startRecording", FALSE, TRUE)
            ELSE \E openOk \in BOOLEAN :
                 IF ~openOk THEN StartOpenFailed(fb)
                 ELSE \E synced \in BOOLEAN, allocOk \in BOOLEAN, short \in 0..maxShort :
                         StartSucceeds(fpsArg, fb, synced, allocOk, short)

(***************************************************************************)
(* finalizeAVI and stopRecording.                                          *)
(***************************************************************************)
\* _frameIndex[i] for i = 0..frameCount-1; a slot past the written ones holds
\* whatever the heap holds (g)
IndexEntry(i, g) ==
    IF i <= Len(indexSlots) THEN indexSlots[i] ELSE [offset |-> g, size |-> g]

\* the four words written for entry i
Idx1Entry(i, g) ==
    FCC_00dc \o LE32(16) \o LE32(IndexEntry(i, g).offset) \o LE32(IndexEntry(i, g).size)

\* 'idx1', the chunk size, then the entries in order (byte k of the entries
\* is byte ((k-1) mod 16)+1 of entry ((k-1) div 16)+1)
Idx1Bytes(n, g) ==
    FCC_idx1 \o LE32(n * 16)
    \o [k \in 1..(16 * n) |-> Idx1Entry(((k - 1) \div 16) + 1, g)[((k - 1) % 16) + 1]]

HasIndexChunk == frameIndex = "allocated" /\ frameCount > 0

IndexChunk(g) == IF HasIndexChunk THEN Idx1Bytes(frameCount, g) ELSE << >>

\* the bytes the index chunk adds to _totalBytes: 4 + 4 + 16 per entry
IndexChunkLen == IF HasIndexChunk THEN 4 + 4 + frameCount * (4 + 4 + 4 + 4) ELSE 0

\* the first k of the four seekWrite32 calls, in the code's order
HeaderPatched(b, k, totalFileSize, sizeBeforeIdx1) ==
    LET p1 == IF k >= 1 THEN Patch32(b, riffSizeOffset, totalFileSize - 8) ELSE b
        p2 == IF k >= 2 THEN Patch32(p1, moviListSizeOffset, sizeBeforeIdx1 - 220) ELSE p1
        p3 == IF k >= 3 THEN Patch32(p2, aviFramesOffset, frameCount) ELSE p2
        p4 == IF k >= 4 THEN Patch32(p3, strhFramesOffset, frameCount) ELSE p3
    IN p4

\* the card after finalizeAVI: cut bytes of the index chunk appended, then
\* (reopened) the file reopened "r+" and the first k fields patched
FinalizedFiles(reopened, g, cut, k) ==
    LET idx == IndexChunk(g)
        appended == FsAppend(files, currentFilename, Prefix(idx, cut))
    IN IF reopened /\ currentFilename \in DOMAIN appended
       THEN FsPut(appended, currentFilename,
                  HeaderPatched(appended[currentFilename], k,
                                totalBytes + IndexChunkLen, totalBytes))
       ELSE appended

\* stopRecording on an active session: every field but the index slots
StopCounters ==
    /\ isRecording' = FALSE
    /\ frameIndex' = "nullptr"
    /\ aviFile' = FALSE
    /\ totalBytes' = IF frameCount > 0 THEN totalBytes + IndexChunkLen ELSE totalBytes
    /\ currentFilename' = IF frameCount > 0 THEN currentFilename ELSE NoName
    /\ UNCHANGED << fps, frameInterval, startTime, lastFrameTime, frameCount,
                    riffSizeOffset, aviFramesOffset, strhFramesOffset,
                    moviListSizeOffset, width, height, maxFrames >>
    /\ UNCHANGED << recDir, sdInitialized, now, wallClock, borrowed, phase >>
    /\ UNCHANGED << sessionPaths, framesWritten, ticks, powerLosses, cutPath, deleteArg >>

\* stopRecording on an active session: the card and the freed index buffer
StopBytes(reopenOk, g, short) ==
    /\ indexSlots' = << >>
    /\ files' = IF frameCount > 0
                THEN FinalizedFiles(reopenOk, g, Len(IndexChunk(g)) - short, 4)
                ELSE FsRemove(files, currentFilename)
    /\ UNCHANGED sessionSizes

StopEffect(maxShort) ==
    /\ StopCounters
    /\ \E reopenOk \in BOOLEAN, g \in HeapWords, short \in 0..maxShort :
          StopBytes(reopenOk, g, short)

StopRecording(maxShort) ==
    /\ InLoop
    /\ IF ~isRecording THEN ReturnsUntouched("stopRecording", FALSE, FALSE)
       ELSE /\ StopEffect(maxShort)
            /\ lastCall' = Call("stopRecording", TRUE, FALSE)

(***************************************************************************)
(* update.                                                                 *)
(***************************************************************************)
\* a duration guard that lets the tick at exactly the maximum pass
DurationReached_late == (now - startTime) > MAX_RECORDING_SECONDS * 1000
DurationReached == (now - startTime) >= MAX_RECORDING_SECONDS * 1000
\* a rate gate that also holds back the tick at exactly one frame interval
FrameDue_strict == ~((now - lastFrameTime) <= frameInterval)
FrameDue == ~((now - lastFrameTime) < frameInterval)

\* a frame captured and appended: every field but the index slots
FrameCounters(fb) ==
    /\ lastFrameTime' = now
    /\ totalBytes' = BytesAfterFrame(totalBytes, fb.len)
    /\ frameCount' = CountAfterFrame(frameCount)
    /\ lastCall' = Call("update", TRUE, TRUE)
    /\ UNCHANGED << isRecording, fps, frameInterval, startTime, currentFilename,
                    aviFile, riffSizeOffset, aviFramesOffset, strhFramesOffset,
                    moviListSizeOffset, width, height, frameIndex, maxFrames >>
    /\ borrowed' = Release(Borrow(borrowed))
    /\ UNCHANGED << recDir, sdInitialized, now, wallClock, phase >>
    /\ UNCHANGED << sessionPaths, powerLosses, cutPath, deleteArg >>

\* a frame captured and appended: the chunk on the card, the index slot
FrameBytes(fb, short) ==
    /\ indexSlots' = IndexAfterFrame(indexSlots, frameIndex, frameCount, maxFrames,
                                     totalBytes, fb.len)
    /\ files' = FsAppend(files, currentFilename,
                         Prefix(ChunkBytes(fb.len), Len(ChunkBytes(fb.len)) - short))
    /\ sessionSizes' = Append(sessionSizes, fb.len)

UpdateWritesFrame(fb, short) ==
    /\ FrameCounters(fb)
    /\ FrameBytes(fb, short)
    /\ framesWritten' = framesWritten + 1
    /\ UNCHANGED ticks

\* the tick is taken and no frame is appended
UpdateSkipsFrame(note) ==
    /\ lastFrameTime' = now
    /\ lastCall' = Noted(Call("update", TRUE, TRUE), note)
    /\ UNCHANGED << isRecording, fps, frameInterval, startTime, frameCount,
                    currentFilename, aviFile, riffSizeOffset, aviFramesOffset,
                    strhFramesOffset, moviListSizeOffset, totalBytes, width,
                    height, frameIndex, indexSlots, maxFrames >>
    /\ borrowed' = IF note = "captureFailed" THEN borrowed
                    ELSE Release(Borrow(borrowed))
    /\ UNCHANGED << files, recDir, sdInitialized, now, wallClock, phase >>
    /\ UNCHANGED << sessionSizes, sessionPaths, framesWritten, ticks,
                    powerLosses, cutPath, deleteArg >>

\* a recorder that counts a frame it did not capture
UpdateCaptureFailed_counted ==
    /\ lastFrameTime' = now
    /\ frameCount' = frameCount + 1
    /\ lastCall' = Noted(Call("update", TRUE, TRUE), "captureFailed")
    /\ UNCHANGED << isRecording, fps, frameInterval, startTime,
                    currentFilename, aviFile, riffSizeOffset, aviFramesOffset,
                    strhFramesOffset, moviListSizeOffset, totalBytes, width,
                    height, frameIndex, indexSlots, maxFrames >>
    /\ UNCHANGED << envVars, sessionSizes, sessionPaths, framesWritten, ticks,
                    powerLosses, cutPath, deleteArg >>
\* capturePhoto returned no frame
UpdateCaptureFailed == UpdateSkipsFrame("captureFailed")

Update(maxShort) ==
    /\ InLoop
    /\ framesWritten < MaxFramesWritten
    /\ IF ~isRecording THEN ReturnsUntouched("update", TRUE, FALSE)
       ELSE IF DurationReached
       THEN /\ StopEffect(maxShort)
            /\ lastCall' = Noted(Call("update", TRUE, FALSE), "maxDuration")
       ELSE \E lowSpace \in BOOLEAN :
            IF lowSpace
            THEN /\ StopEffect(maxShort)
                 /\ lastCall' = Noted(Call("update", TRUE, FALSE), "lowSpace")
            ELSE IF ~FrameDue THEN ReturnsUntouched("update", TRUE, FALSE)
            ELSE \E fb \in Frames \cup {NoFrame} :
                 IF fb = NoFrame THEN UpdateCaptureFailed
                 ELSE IF ~aviFile THEN UpdateSkipsFrame("")
                 ELSE \E short \in 0..maxShort : UpdateWritesFrame(fb, short)

(***************************************************************************)
(* The driver: setup() runs repairRecordings once after SD init, loop()    *)
(* polls; the clock advances between calls.                                *)
(***************************************************************************)
Setup(sdOk) ==
    /\ phase = "setup"
    /\ phase' = "loop"
    /\ sdInitialized' = sdOk
    /\ \E paths \in RepairBatches(files) :
          /\ (sdOk /\ recDir) => RepairReturnsAll(files, paths)
          /\ files' = IF sdOk /\ recDir THEN RepairAll(files, paths) ELSE files
    /\ lastCall' = Call("repairRecordings", TRUE, FALSE)
    /\ UNCHANGED << recVars, recDir, now, wallClock, borrowed >>
    /\ UNCHANGED << sessionSizes, sessionPaths, framesWritten, ticks, powerLosses, cutPath, deleteArg >>

\* the instants at which the driver polls: at once, a frame interval later,
\* or the maximum duration later
ClockSteps == { frameInterval, MAX_RECORDING_SECONDS * 1000 }

ClockAdvances(d) ==
    /\ now' = now + d
    /\ wallClock' = wallClock + d
    /\ lastCall' = Call("clock", TRUE, FALSE)
    /\ UNCHANGED << recVars, files, recDir, sdInitialized, borrowed, phase >>
    /\ UNCHANGED << sessionSizes, sessionPaths, framesWritten, powerLosses, cutPath, deleteArg >>

Tick(d) ==
    /\ InLoop
    /\ ticks < MaxTicks
    /\ ticks' = ticks + 1
    /\ ClockAdvances(d)

(***************************************************************************)
(* Power loss: the call in progress stops after some of its storage        *)
(* writes, the card keeps what was written, the recorder is constructed    *)
(* anew.                                                                   *)
(***************************************************************************)
PowerUp ==
    /\ isRecording' = FALSE
    /\ fps' = CTOR_FPS
    /\ frameInterval' = CTOR_FRAME_INTERVAL
    /\ startTime' = 0
    /\ lastFrameTime' = 0
    /\ frameCount' = 0
    /\ currentFilename' = NoName
    /\ aviFile' = FALSE
    /\ riffSizeOffset' = 0
    /\ aviFramesOffset' = 0
    /\ strhFramesOffset' = 0
    /\ moviListSizeOffset' = 0
    /\ totalBytes' = 0
    /\ width' = 0
    /\ height' = 0
    /\ frameIndex' = "nullptr"
    /\ indexSlots' = << >>
    /\ maxFrames' = 0
    /\ sdInitialized' = FALSE
    /\ now' = 0
    /\ borrowed' = 0
    /\ phase' = "setup"
    /\ sessionSizes' = << >>
    /\ powerLosses' = powerLosses + 1
    /\ cutPath' = IF isRecording THEN currentFilename ELSE NoName
    /\ framesWritten' = 0
    /\ ticks' = 0
    /\ lastCall' = Call("boot", TRUE, FALSE)
    /\ deleteArg' = << >>
    /\ UNCHANGED << wallClock, sessionPaths >>

\* power-loss points explored in a fixed-layout region of len bytes (the
\* header, the index chunk): within MaxEdgeCut bytes of its ends
NearEdge(c, len) == c <= MaxEdgeCut \/ c >= len - MaxEdgeCut
EdgeCuts(len) == { c \in 0..len : NearEdge(c, len) }
\* in startRecording's stream: those of the header, and every byte of the
\* first frame chunk
StartCuts(len) ==
    { c \in 0..len : NearEdge(c, MOVI_DATA_START) \/ c > MOVI_DATA_START }

\* between two calls
PowerLossIdle ==
    /\ InLoop
    /\ PowerUp
    /\ UNCHANGED << files, recDir >>

\* inside startRecording, after cut bytes of the header and first chunk
PowerLossInStart(fpsArg, fb, synced) ==
    /\ InLoop
    /\ Len(sessionPaths) < MaxSessions
    /\ framesWritten < MaxFramesWritten
    /\ ~AlreadyActive /\ sdInitialized /\ fb # NoFrame
    /\ LET stream == HeaderBytes(fb.width, fb.height, ClampFps(fpsArg))
                     \o ChunkBytes(fb.len)
       IN \E cut \in StartCuts(Len(stream)) :
             files' = FsPut(files, RecordingName(synced), Prefix(stream, cut))
    /\ recDir' = TRUE
    /\ PowerUp

\* inside update's writeFrame, after cut bytes of the chunk
PowerLossInUpdate(fb) ==
    /\ InLoop
    /\ framesWritten < MaxFramesWritten
    /\ isRecording /\ ~DurationReached /\ FrameDue /\ fb # NoFrame /\ aviFile
    /\ \E cut \in 1..Len(ChunkBytes(fb.len)) :
          files' = FsAppend(files, currentFilename, Prefix(ChunkBytes(fb.len), cut))
    /\ UNCHANGED recDir
    /\ PowerUp

\* inside finalizeAVI: after cut bytes of the index chunk, or after the whole
\* chunk, the reopen and k of the four patches
PowerLossInStop(g) ==
    /\ InLoop
    /\ isRecording /\ frameCount > 0
    /\ \E cut \in EdgeCuts(Len(IndexChunk(g))), k \in 0..4 :
          /\ k > 0 => cut = Len(IndexChunk(g))
          /\ files' = FinalizedFiles(k > 0, g, cut, k)
    /\ UNCHANGED recDir
    /\ PowerUp

(***************************************************************************)
(* Specifications.                                                         *)
(* Spec: the recorder, the card byte by byte, power losses; every storage  *)
(* write stores all its bytes.                                             *)
(***************************************************************************)
PowerLoss ==
    \/ PowerLossIdle
    \/ \E fpsArg \in FpsArgs, fb \in Frames, synced \in BOOLEAN :
          PowerLossInStart(fpsArg, fb, synced)
    \/ \E fb \in Frames : PowerLossInUpdate(fb)
    \/ \E g \in HeapWords : PowerLossInStop(g)

Next ==
    \/ \E sdOk \in BOOLEAN : Setup(sdOk)
    \/ \E d \in ClockSteps : Tick(d)
    \/ \E fpsArg \in FpsArgs : StartRecording(fpsArg, 0)
    \/ StopRecording(0)
    \/ Update(0)
    \/ PowerLoss

Spec == Init /\ [][Next]_vars

(***************************************************************************)
(* SpecFaulty: one boot without power loss in which a storage write may    *)
(* store fewer bytes than asked: the last write of a call drops up to      *)
(* MaxShort bytes.                                                         *)
(***************************************************************************)
NextFaulty ==
    \/ \E sdOk \in BOOLEAN : Setup(sdOk)
    \/ \E d \in ClockSteps : Tick(d)
    \/ \E fpsArg \in FpsArgs : StartRecording(fpsArg, MaxShort)
    \/ StopRecording(MaxShort)
    \/ Update(MaxShort)

SpecFaulty == Init /\ [][NextFaulty]_vars

(***************************************************************************)
(* SpecPace: one boot, one session at a time, followed at the program's    *)
(* real rates for the whole maximum duration.  The driver polls update     *)
(* at the start and every frame interval, once or twice per instant; every *)
(* capture and every write succeeds.                                       *)
(* This specification follows the recorder's counters and clock only: the  *)
(* bytes on the card and the contents of the index slots, which no counter *)
(* reads, stay as they were and are followed by Spec.                      *)
(***************************************************************************)
PaceFrame == [len |-> 1, width |-> 320, height |-> 240]
PaceFpsArgs == { 0, 10, 20 }

\* entry i (from 1) of the index chunk finalizeAVI writes in a session whose
\* frames all are PaceFrame: the slot writeFrame filled, or, past the end of
\* the buffer, the word g the heap holds there
PaceIndexEntry(i, g) ==
    IF i <= maxFrames
    THEN [offset |-> (i - 1) * (8 + PaceFrame.len + PadLen(PaceFrame.len)),
          size |-> PaceFrame.len]
    ELSE [offset |-> g, size |-> g]

BytesNotFollowed == UNCHANGED << files, indexSlots, sessionSizes >>

PaceStart(fpsArg) ==
    /\ phase = "loop"
    /\ Len(sessionPaths) < MaxPaceSessions
    /\ ~AlreadyActive /\ sdInitialized
    /\ \E allocOk \in BOOLEAN : StartCounters(fpsArg, PaceFrame, TRUE, allocOk)
    /\ BytesNotFollowed
    /\ UNCHANGED << framesWritten, ticks >>

PaceTick ==
    /\ phase = "loop"
    /\ isRecording
    /\ lastCall.op # "clock"
    /\ ClockAdvances(frameInterval)
    /\ UNCHANGED ticks

PaceUpdate ==
    /\ phase = "loop"
    /\ isRecording
    /\ IF DurationReached
       THEN /\ StopCounters
            /\ lastCall' = Noted(Call("update", TRUE, FALSE), "maxDuration")
            /\ BytesNotFollowed
       ELSE IF ~FrameDue THEN ReturnsUntouched("update", TRUE, FALSE)
       ELSE /\ FrameCounters(PaceFrame)
            /\ BytesNotFollowed
            /\ UNCHANGED << framesWritten, ticks >>

NextPace ==
    \/ Setup(TRUE)
    \/ \E fpsArg \in PaceFpsArgs : PaceStart(fpsArg)
    \/ PaceTick
    \/ PaceUpdate

SpecPace == Init /\ [][NextPace]_vars

(***************************************************************************)
(* Properties.                                                             *)
(***************************************************************************)
(* deleteRecording, and cards that hold files before the first power-up.   *)
(***************************************************************************)
\* "/" + String(RECORDINGS_FOLDER) + "/" + filename
DeletePath(filename) == << "/" >> \o RECORDINGS_FOLDER \o << "/" >> \o filename

\* SD_MMC.remove(path): the file the path leads to goes, if there is one
RemoveTargets(fs, path) ==
    {p \in DOMAIN fs : PathOf(p) = ResolvePath(SplitPath(path, 1, << >>), << >>)}

\* the filenames a caller passes: every text of up to MaxNameLen characters
\* over '.', '/' and 'a', and names that startRecording formats
NameChars == {".", "/", "a"}
ShortNames == UNION {[1..n -> NameChars] : n \in 0..MaxNameLen}
DeleteArgs ==
    ShortNames \cup {FileNameOf(p) : p \in {MillisName(0), MillisName(7), TimeName(0)}}

DeleteRecording(filename) ==
    /\ InLoop
    /\ lastCall.op # "deleteRecording"
    /\ deleteArg' = filename
    /\ IF HasDotDot(filename)
       THEN /\ lastCall' = Call("deleteRecording", FALSE, FALSE)
            /\ UNCHANGED files
       ELSE \* a file that is open for writing: the storage library removes
            \* it or refuses to
            \E refused \in BOOLEAN :
            LET targets == RemoveTargets(files, DeletePath(filename))
                gone == IF refused /\ aviFile THEN targets \ {currentFilename}
                        ELSE targets
            IN /\ refused => (aviFile /\ currentFilename \in targets)
               /\ files' = [p \in DOMAIN files \ gone |-> files[p]]
               /\ lastCall' = Call("deleteRecording", gone # {}, FALSE)
    /\ UNCHANGED << recVars, recDir, sdInitialized, now, wallClock, borrowed, phase >>
    /\ UNCHANGED << sessionSizes, sessionPaths, framesWritten, ticks, powerLosses,
                    cutPath >>

\* what an earlier run left in a file: a header and one or two frame chunks
CardStream(sizes) ==
    HeaderBytes(320, 240, CTOR_FPS)
    \o Flatten([i \in 1..Len(sizes) |-> ChunkBytes(sizes[i])])
\* the same after its four fields were patched for n frames
CardPatched(sizes) == RepairPatched(CardStream(sizes), Len(sizes))
\* every file an interrupted write or copy of such a file leaves
CardImages ==
    {Prefix(CardStream(<< 2, 1 >>), n) : n \in 0..Len(CardStream(<< 2, 1 >>))}
    \cup {Prefix(CardPatched(<< 2, 1 >>), n) : n \in 0..Len(CardPatched(<< 2, 1 >>))}
\* the names of such a file in the recordings directory
CardFileNames == {MillisName(0), CardName(4), CardName(5)}
\* a card with a file at each kind of path
MixedCard ==
    [p \in {CardName(k) : k \in 1..Len(CardPaths)} \cup {MillisName(7)}
       |-> CardStream(<< 1 >>)]
\* a card with one recording more than repairRecordings collects
FullCard ==
    [p \in {TimeName(k * 1000) : k \in 0..REPAIR_MAX_FILES} |-> CardStream(<< 1 >>)]
\* a file whose first chunk declares a length of 2^32 - back: the sum
\* 224 + 8 + length is 232 - back in 32-bit arithmetic
WrappedImage(back) ==
    HeaderBytes(320, 240, CTOR_FPS) \o FCC_00dc
    \o << 256 - back, 255, 255, 255 >> \o JpegData(2)
\* FullCard with a first file cut inside its header
FullCardCutFirst ==
    [p \in DOMAIN FullCard |->
       IF p = TimeName(0) THEN Prefix(FullCard[p], 100) ELSE FullCard[p]]
Cards ==
    {[p \in {MillisName(0)} |-> b] : b \in CardImages}
    \cup {[p \in {MillisName(0)} |-> WrappedImage(back)] : back \in {8, 16}}
    \cup {FullCardCutFirst}
    \cup {[p \in {q} |-> b] : q \in CardFileNames,
                              b \in {CardStream(<< 2, 1 >>), Prefix(CardPatched(<< 2, 1 >>), 100)}}
    \cup {MixedCard, FullCard}

InitCard ==
    /\ CtorState
    /\ files \in Cards
    /\ recDir = TRUE
    /\ sdInitialized = FALSE
    /\ now = 0
    /\ wallClock = 0
    /\ borrowed = 0
    /\ phase = "setup"
    /\ lastCall = Call("boot", TRUE, FALSE)
    /\ sessionSizes = << >>
    /\ sessionPaths = << >>
    /\ framesWritten = 0
    /\ ticks = 0
    /\ powerLosses = 0
    /\ cutPath = NoName
    /\ deleteArg = << >>

\* power is cycled right after a repair pass: the next boot repeats the pass
PowerCycleAfterRepair ==
    /\ sdInitialized /\ lastCall.op = "repairRecordings"
    /\ PowerLossIdle

NextCard ==
    \/ \E sdOk \in BOOLEAN : Setup(sdOk)
    \/ PowerCycleAfterRepair
    \/ \E filename \in DeleteArgs : DeleteRecording(filename)

SpecCard == InitCard /\ [][NextCard]_vars

(***************************************************************************)
(* SpecLive: one boot that has been up for some time, the millisecond      *)
(* counter followed as the 32-bit word it is (two 16-bit halves).  The     *)
(* driver's loop polls update after every advance of the clock and never   *)
(* calls stopRecording; a capture may fail every time.  As in SpecPace the *)
(* recorder's counters are followed, not the bytes on the card.            *)
(***************************************************************************)
\* a duration guard that adds the maximum to the start time without wrapping
DurationReached32_wide ==
    LET lo == startTime.lo + ((MAX_RECORDING_SECONDS * 1000) % 65536)
        hi == startTime.hi + ((MAX_RECORDING_SECONDS * 1000) \div 65536) + (lo \div 65536)
    IN /\ hi < 65536
       /\ now.hi > hi \/ (now.hi = hi /\ now.lo >= lo % 65536)
\* (now - _startTime) >= MAX_RECORDING_SECONDS * 1000UL, both unsigned long
DurationReached32 ==
    \/ Gt32(Sub32(now, startTime), MAX_RECORDING_SECONDS * 1000)
    \/ Eq32(Sub32(now, startTime), MAX_RECORDING_SECONDS * 1000)

\* millis() at the first call: just after power-up, 150 s before the counter
\* wraps, 1 ms before it wraps
InitLive ==
    /\ CtorFields
    /\ startTime = [lo |-> 0, hi |-> 0]
    /\ lastFrameTime = [lo |-> 0, hi |-> 0]
    /\ now \in {[lo |-> 0, hi |-> 0], [lo |-> 46608, hi |-> 65533],
                [lo |-> 65535, hi |-> 65535]}
    /\ files = << >>
    /\ recDir = FALSE
    /\ sdInitialized = FALSE
    /\ wallClock = 0
    /\ borrowed = 0
    /\ phase = "setup"
    /\ lastCall = Call("boot", TRUE, FALSE)
    /\ sessionSizes = << >>
    /\ sessionPaths = << >>
    /\ framesWritten = 0
    /\ ticks = 0
    /\ powerLosses = 0
    /\ cutPath = NoName
    /\ deleteArg = << >>

\* the millisecond counter advances by d ms between two polls (the wall
\* clock, which only names the file, is not followed)
LiveTick(d) ==
    /\ phase = "loop"
    /\ isRecording
    /\ lastCall.op # "clock"
    /\ now' = Add32(now, d)
    /\ lastCall' = Call("clock", TRUE, FALSE)
    /\ UNCHANGED << recVars, files, recDir, sdInitialized, wallClock, borrowed, phase >>
    /\ UNCHANGED << sessionSizes, sessionPaths, framesWritten, ticks, powerLosses,
                    cutPath, deleteArg >>

LiveUpdate ==
    /\ phase = "loop"
    /\ isRecording
    /\ IF DurationReached32
       THEN /\ StopCounters
            /\ lastCall' = Noted(Call("update", TRUE, FALSE), "maxDuration")
            /\ BytesNotFollowed
       ELSE \E lowSpace \in BOOLEAN :
            IF lowSpace
            THEN /\ StopCounters
                 /\ lastCall' = Noted(Call("update", TRUE, FALSE), "lowSpace")
                 /\ BytesNotFollowed
            ELSE IF ~(\/ Gt32(Sub32(now, lastFrameTime), frameInterval)
                      \/ Eq32(Sub32(now, lastFrameTime), frameInterval))
            THEN ReturnsUntouched("update", TRUE, FALSE)
            ELSE \E fb \in {PaceFrame, NoFrame} :
                 IF fb = NoFrame THEN UpdateCaptureFailed
                 ELSE /\ FrameCounters(fb)
                      /\ BytesNotFollowed
                      /\ UNCHANGED << framesWritten, ticks >>

\* between two polls pass 100 s, or 2^30 ms
NextLive ==
    \/ Setup(TRUE)
    \/ \E fpsArg \in PaceFpsArgs : PaceStart(fpsArg)
    \/ \E d \in {100000, 65536 * 16384} : LiveTick(d)
    \/ LiveUpdate

\* loop() runs for ever: the clock keeps advancing and update keeps being
\* called
SpecLive ==
    /\ InitLive
    /\ [][NextLive]_vars
    /\ WF_vars(\E d \in {100000, 65536 * 16384} : LiveTick(d))
    /\ WF_vars(LiveUpdate)

(***************************************************************************)
(* SpecDelete: one boot without power loss in which the caller may also    *)
(* delete recordings by name while sessions run.                           *)
(***************************************************************************)
\* the filenames the caller passes here: the two names a session started
\* at boot can have, and one that no recording has
SessionDeleteArgs ==
    {FileNameOf(MillisName(0)), FileNameOf(TimeName(0)), << "a" >>}

\* deleteRecording called while a session is active
DeleteDuringSession(filename) ==
    /\ isRecording
    /\ DeleteRecording(filename)

NextDelete ==
    \/ \E sdOk \in BOOLEAN : Setup(sdOk)
    \/ \E d \in ClockSteps : Tick(d)
    \/ \E fpsArg \in FpsArgs : StartRecording(fpsArg, 0)
    \/ StopRecording(0)
    \/ Update(0)
    \/ \E filename \in SessionDeleteArgs : DeleteDuringSession(filename)

SpecDelete == Init /\ [][NextDelete]_vars

(***************************************************************************)
\* a step that is a call of op (every call records itself in lastCall)
IsCall(op) == lastCall'.op = op

\* C3: startRecording called while a session is active returns false, leaves
\* every field of the recorder and the card (file path, frameCount,
\* totalBytes, fps, start time, file contents) unchanged, and captures no
\* frame.
StartWhileActiveRefused ==
    [][(isRecording /\ IsCall("startRecording"))
         => /\ lastCall'.ret = FALSE
            /\ lastCall'.captured = FALSE
            /\ UNCHANGED << recVars, envVars >>]_vars

\* a session is active and a startRecording call has just been refused
StartWhileActiveSeen ==
    isRecording /\ lastCall = Call("startRecording", FALSE, FALSE)

RECURSIVE SumChunkLens(_)
\* sum over the appended frames of 8 + s_i + (s_i mod 2)
SumChunkLens(sizes) ==
    IF sizes = << >> THEN 0
    ELSE 8 + Head(sizes) + (Head(sizes) % 2) + SumChunkLens(Tail(sizes))

\* C5: in every session, whatever came before it, after the header and the
\* frames of sizes s_1..s_N totalBytes = 224 + sum of (8 + s_i + (s_i mod 2)),
\* and finalize with an index adds 8 + 16*N to that value.
FrameAccounting ==
    /\ [](isRecording => totalBytes = 224 + SumChunkLens(sessionSizes))
    /\ [][(isRecording /\ ~isRecording' /\ powerLosses' = powerLosses
            /\ frameCount > 0)
            => totalBytes' = 224 + SumChunkLens(sessionSizes)
                             + (IF frameIndex = "allocated"
                                THEN 8 + 16 * Len(sessionSizes) ELSE 0)]_vars

\* the second session of a boot, two frames long, finalized with its index
SecondSessionFinalized ==
    /\ powerLosses = 0
    /\ Len(sessionPaths) = 2
    /\ Len(sessionSizes) = 2
    /\ ~isRecording
    /\ totalBytes = 224 + SumChunkLens(sessionSizes) + 8 + 16 * 2

\* a step in which setup() ran repairRecordings on an initialized card
RepairPass == phase = "setup" /\ phase' = "loop" /\ sdInitialized' /\ recDir

\* a state just after such a pass
AfterRepairPass ==
    phase = "loop" /\ sdInitialized /\ lastCall.op = "repairRecordings"

\* C1: a session cut off by power loss between a successful startRecording
\* and the return of stopRecording has, after the next repairRecordings pass,
\* either no file or a file whose two frame-count fields (offsets 48 and 140)
\* are equal and equal to the number of complete '00dc' chunks it holds.
CrashSafeAfterRepair ==
    (AfterRepairPass /\ cutPath # NoName /\ cutPath \in DOMAIN files)
        => /\ Rd32(files[cutPath], 48) = Rd32(files[cutPath], 140)
           /\ Rd32(files[cutPath], 48) = ScanFrames(files[cutPath], MOVI_DATA_START, 0)

RECURSIVE ChunksOf(_)
\* the chunks writeFrame appends for frames of these sizes
ChunksOf(sizes) ==
    IF sizes = << >> THEN << >> ELSE ChunkBytes(Head(sizes)) \o ChunksOf(Tail(sizes))

FrameSizeSeqs == UNION { [1..n -> 1..MaxFrameLen] : n \in 1..MaxFramesWritten }

\* unfinalized files holding chunks 1..K, cut with fewer than s_K bytes of
\* frame K's payload stored; frames is K-1
CutInPayload ==
    UNION { LET stream == HeaderBytes(320, 240, ClampFps(f)) \o ChunksOf(sizes)
                K == Len(sizes)
                payloadStart == Len(stream) - Len(ChunkBytes(sizes[K])) + 8
            IN { [file |-> Prefix(stream, payloadStart + j), frames |-> K - 1] :
                 j \in 0..(sizes[K] - 1) } :
            f \in FpsArgs, sizes \in FrameSizeSeqs }

\* unfinalized files holding chunks 1..K, cut exactly at the end of chunk K
CutAtChunkEnd ==
    { [file |-> HeaderBytes(320, 240, ClampFps(f)) \o ChunksOf(sizes),
       frames |-> Len(sizes)] : f \in FpsArgs, sizes \in FrameSizeSeqs }

\* C2: for an unfinalized file holding frame chunks 1..K, tryRepairAVI
\* counts K-1 frames when the file is cut inside frame K's payload (and
\* deletes the file when K-1 = 0), and K frames when it is cut exactly at
\* the end of chunk K.
RepairCountsTruncated ==
    [][RepairPass
         => \A p \in DOMAIN files : \A c \in CutInPayload \cup CutAtChunkEnd :
               files[p] = c.file
                 => IF c.frames = 0 THEN p \notin DOMAIN files'
                    ELSE /\ p \in DOMAIN files'
                         /\ Rd32(files'[p], 48) = c.frames
                         /\ Rd32(files'[p], 140) = c.frames]_vars

\* a file cut inside the payload of its second frame has been repaired to one frame
RepairedCutInPayload ==
    /\ AfterRepairPass
    /\ \E p \in DOMAIN files : \E c \in CutInPayload :
          c.frames = 1 /\ files[p] = RepairPatched(c.file, 1)

\* a step in which stopRecording ran on an active session
StopsActive == isRecording /\ IsCall("stopRecording")

\* C4: after stopRecording on a session with N >= 1 frames the file reads
\* RIFF size (offset 4) = file size - 8, list size (offset 216) = bytes
\* written before the index chunk - 220, both frame counts (48, 140) = N; with
\* the index present the file has grown by an index chunk of 8 + 16*N bytes,
\* without it the file has not grown.
FinalizePostcondition ==
    [][(StopsActive /\ frameCount >= 1 /\ currentFilename \in DOMAIN files)
         => /\ currentFilename \in DOMAIN files'
            /\ LET before == files[currentFilename]
                   after == files'[currentFilename]
               IN /\ Rd32(after, 4) = Len(after) - 8
                  /\ Rd32(after, 216) = Len(before) - 220
                  /\ Rd32(after, 48) = frameCount
                  /\ Rd32(after, 140) = frameCount
                  /\ frameIndex = "allocated"
                       => Len(after) = Len(before) + 8 + 16 * frameCount
                  /\ frameIndex = "nullptr" => Len(after) = Len(before)]_vars

\* C6: while the session's file is open for appending, totalBytes equals the
\* length of that file, whatever the storage write calls stored.
TotalBytesIsFileLength ==
    (isRecording /\ aviFile /\ currentFilename \in DOMAIN files)
        => totalBytes = Len(files[currentFilename])

\* C7: whenever the frame index is present, frameCount does not exceed the
\* capacity of the index (MAX_RECORDING_SECONDS * fps + 10), for every fps in
\* [1,15] and every schedule of update calls within the maximum duration.
FrameCountWithinIndex ==
    (isRecording /\ frameIndex = "allocated")
        => /\ fps \in MIN_FPS..MAX_FPS
           /\ frameCount <= MAX_RECORDING_SECONDS * fps + 10

\* C8: when stopRecording returns on an active session, the session is
\* inactive, the index buffer is released, and the session's file is deleted
\* or has its four placeholder fields patched - also when reopening fails.
StopCompletes ==
    [][StopsActive
         => /\ ~isRecording'
            /\ frameIndex' = "nullptr"
            /\ currentFilename \in DOMAIN files'
                 => /\ Rd32(files'[currentFilename], 4) # 0
                    /\ Rd32(files'[currentFilename], 216) # 0
                    /\ Rd32(files'[currentFilename], 48) # 0
                    /\ Rd32(files'[currentFilename], 140) # 0]_vars

\* C9: every session that starts gets a path different from that of every
\* earlier session.
SessionPathsUnique ==
    \A i, j \in DOMAIN sessionPaths : i # j => sessionPaths[i] # sessionPaths[j]

\* C10: when startRecording returns false, no file has been created, no
\* field of the recorder has changed (width and height included), and no
\* frame buffer remains borrowed.
FailedStartLeavesNoTrace ==
    [][(IsCall("startRecording") /\ lastCall'.ret = FALSE)
         => /\ UNCHANGED recVars
            /\ DOMAIN files' = DOMAIN files
            /\ borrowed' = 0]_vars

\* C11: without power loss a session becomes inactive only in stopRecording
\* or inside update when the time since start is >= MAX_RECORDING_SECONDS*1000
\* ms or free space is low; with sufficient free space update stops the
\* session exactly at the ticks whose elapsed time is >= the maximum, never
\* at an earlier one, and the tick that stops the session captures no frame.
AutoStopOnlyWhenDue ==
    /\ [][(isRecording /\ ~isRecording' /\ powerLosses' = powerLosses)
            => \/ IsCall("stopRecording")
               \/ /\ IsCall("update")
                  /\ \/ now - startTime >= MAX_RECORDING_SECONDS * 1000
                     \/ lastCall'.note = "lowSpace"]_vars
    /\ [][(isRecording /\ IsCall("update") /\ lastCall'.note # "lowSpace")
            => /\ ~isRecording' <=> (now - startTime >= MAX_RECORDING_SECONDS * 1000)
               /\ ~isRecording'
                    => /\ lastCall'.captured = FALSE
                       /\ frameCount' = frameCount
                       /\ borrowed' = borrowed]_vars

\* update has just stopped a session that reached the maximum duration
AutoStoppedAtMaximum ==
    /\ ~isRecording
    /\ lastCall.op = "update" /\ lastCall.note = "maxDuration"
    /\ now - startTime = MAX_RECORDING_SECONDS * 1000

\* C12: fps is clamped to [1,15] and frameInterval = 1000 div fps; an update
\* on an active session that does not stop it captures a frame if and only
\* if at least frameInterval ms have passed since the last capture tick;
\* hence after startRecording and N updates spaced frameInterval apart
\* frameCount = N + 1 (51 for fps 10 after 50 updates 100 ms apart).
PacedCapture ==
    /\ [](isRecording => (fps \in 1..15 /\ frameInterval = 1000 \div fps))
    /\ [][(isRecording /\ IsCall("update") /\ isRecording')
            => /\ lastCall'.captured <=> (now - lastFrameTime >= frameInterval)
               /\ frameCount' = frameCount + (IF lastCall'.captured THEN 1 ELSE 0)]_vars
    /\ []((isRecording /\ lastCall.op = "update")
            => frameCount = ((now - startTime) \div frameInterval) + 1)

\* fps 10, 50 updates 100 ms apart after the start: 51 frames
FiftyUpdatesAtTenFps ==
    /\ isRecording
    /\ fps = 10
    /\ lastCall.op = "update"
    /\ now - startTime = 50 * 100
    /\ frameCount = 51

\* C13: a capture failure inside update is tolerated: the session stays
\* active, and frameCount, totalBytes, the frame index and the contents of
\* the card are as before the call.
CaptureFailureTolerated ==
    [][(isRecording /\ IsCall("update") /\ lastCall'.note = "captureFailed")
         => /\ isRecording'
            /\ UNCHANGED << frameCount, totalBytes, frameIndex, indexSlots,
                            maxFrames, files, currentFilename, aviFile >>]_vars

\* a capture has just failed in the first due update of a session
CaptureFailedInSession ==
    /\ isRecording
    /\ lastCall.op = "update" /\ lastCall.note = "captureFailed"
    /\ lastFrameTime = startTime + frameInterval
    /\ frameCount = 1

\* the chunk writeFrame has just put at offset at of the file b, for a frame
\* of len bytes: tag, declared length = len, payload, and one zero byte
\* exactly when len is odd, up to the end of the file
ChunkLaidOut(b, at, len) ==
    /\ HasTag00dc(b, at)
    /\ Rd32(b, at + 4) = len
    /\ \A i \in 1..len : b[at + 8 + i] = JpegByte(i)
    /\ Len(b) = at + 8 + len + (IF len % 2 = 1 THEN 1 ELSE 0)
    /\ len % 2 = 1 => b[Len(b)] = 0

\* C16: padding law. For every frame appended by writeFrame (the first one
\* in startRecording, the others in update) the payload is followed by
\* exactly one zero byte if and only if its length is odd, the declared
\* length of the chunk is the unpadded length, and the pad byte is counted
\* in totalBytes only.
PaddingLaw ==
    /\ [][(IsCall("startRecording") /\ lastCall'.ret)
            => LET len == sessionSizes'[1]
               IN /\ Len(sessionSizes') = 1
                  /\ ChunkLaidOut(files'[currentFilename'], MOVI_DATA_START, len)
                  /\ totalBytes' - MOVI_DATA_START - SessionBase
                        = 8 + len + (IF len % 2 = 1 THEN 1 ELSE 0)]_vars
    /\ [][(IsCall("update") /\ framesWritten' = framesWritten + 1)
            => LET len == sessionSizes'[Len(sessionSizes')]
                   old == files[currentFilename]
                   new == files'[currentFilename]
               IN /\ Len(sessionSizes') = Len(sessionSizes) + 1
                  /\ Prefix(new, Len(old)) = old
                  /\ ChunkLaidOut(new, Len(old), len)
                  /\ totalBytes' - totalBytes
                        = 8 + len + (IF len % 2 = 1 THEN 1 ELSE 0)]_vars

\* update has appended a frame of odd length after a first frame of even
\* length: the file ends in the pad byte
OddFrameAppended ==
    /\ isRecording
    /\ lastCall.op = "update" /\ lastCall.captured
    /\ Len(sessionSizes) = 2
    /\ sessionSizes[1] % 2 = 0 /\ sessionSizes[2] % 2 = 1
    /\ currentFilename \in DOMAIN files
    /\ files[currentFilename][Len(files[currentFilename])] = 0

\* the frame sizes and rates a header is laid out for
FrameWidths == {160, 320, 1600}
FrameHeights == {120, 240, 1200}
HeaderLayoutFixed ==
    \A w \in FrameWidths, h \in FrameHeights, f \in MIN_FPS..MAX_FPS :
        /\ RiffSizeOffsetAt(0) = 4
        /\ AviFramesOffsetAt(0, w, h, f) = 48
        /\ StrhFramesOffsetAt(0, w, h, f) = 140
        /\ MoviListSizeOffsetAt(0, w, h, f) = 216
        /\ Len(HeaderBytes(w, h, f)) = 224

\* C18: the four patch offsets recorded while the header is written are 4,
\* 48, 140 and 216 for every width, height and fps; they do not change
\* while the session lasts; the header is 224 bytes long, so that the tag
\* of the first frame chunk is at byte 224 of the file.
PatchOffsetsFixed ==
    /\ [](HeaderLayoutFixed)
    /\ [](isRecording
            => /\ riffSizeOffset = 4
               /\ aviFramesOffset = 48
               /\ strhFramesOffset = 140
               /\ moviListSizeOffset = 216
               /\ Len(HeaderBytes(width, height, fps)) = 224)
    /\ [][(isRecording /\ isRecording' /\ powerLosses' = powerLosses)
            => UNCHANGED << riffSizeOffset, aviFramesOffset, strhFramesOffset,
                            moviListSizeOffset >>]_vars
    /\ [][(IsCall("startRecording") /\ lastCall'.ret)
            => /\ Prefix(files'[currentFilename'], 224)
                    = HeaderBytes(width', height', fps')
               /\ HasTag00dc(files'[currentFilename'], 224)]_vars

\* a session at the lowest frame rate has gone through an update
OffsetsKeptInSession ==
    /\ isRecording
    /\ fps = MIN_FPS
    /\ lastCall.op = "update" /\ lastCall.captured
    /\ frameCount = 2
    /\ riffSizeOffset = 4 /\ moviListSizeOffset = 216

\* byte i (counted from 1) of a file lies in one of the four patched fields
InPatchField(i) ==
    \E at \in {4, 48, 140, 216} : at < i /\ i <= at + 4

\* C20: once written, the only bytes of a recording file that finalizeAVI or
\* tryRepairAVI overwrite are the four 4-byte fields at offsets 4, 48, 140
\* and 216: every other byte, the frame chunks from offset 224 on included,
\* keeps its value, and tryRepairAVI leaves the length of the file as it was.
OnlyPatchFieldsRewritten ==
    [][(RepairPass \/ (isRecording /\ ~isRecording'))
         => \A p \in DOMAIN files \cap DOMAIN files' :
               /\ Len(files'[p]) >= Len(files[p])
               /\ RepairPass => Len(files'[p]) = Len(files[p])
               /\ \A i \in 1..Len(files[p]) :
                     files'[p][i] # files[p][i] => InPatchField(i)]_vars

\* the repair pass has patched the file cut by a power loss, and its first
\* frame chunk is where it was written
RepairPatchedInPlace ==
    /\ AfterRepairPass
    /\ powerLosses = 1
    /\ cutPath \in DOMAIN files
    /\ Len(files[cutPath]) > MOVI_DATA_START + 8
    /\ Rd32(files[cutPath], 48) = 1
    /\ Rd32(files[cutPath], 4) = Len(files[cutPath]) - 8
    /\ Rd32(files[cutPath], 216) = Len(files[cutPath]) - 220
    /\ HasTag00dc(files[cutPath], MOVI_DATA_START)

\* C17 (its case): stopRecording discards the file of a session with
\* frameCount = 0.  startRecording appends the first frame before it sets
\* isRecording, so that an active session never has frameCount = 0 and the
\* discard is never taken.
SessionHasFirstFrame == isRecording => frameCount >= 1

\* the total-frame-count field of a file that is long enough to hold it
HasFrameCount(b) == Len(b) >= 48 + 4 /\ Rd32(b, 48) # 0

\* C14 as stated: tryRepairAVI on a file whose total-frame-count field
\* (offset 48) is non-zero writes nothing and does not delete the file.
FinalizedSkipped_anyLength ==
    [][RepairPass
         => \A p \in DOMAIN files :
               (IsRecordingEntry(p) /\ HasFrameCount(files[p]))
                  => (p \in DOMAIN files' /\ files'[p] = files[p])]_vars

\* C14: tryRepairAVI on a file of at least 224 bytes whose total-frame-count
\* field (offset 48) is non-zero writes nothing and does not delete the file:
\* its bytes and its length are as before.  (A shorter file is deleted before
\* the field is read.)
FinalizedSkipped ==
    [][RepairPass
         => \A p \in DOMAIN files :
               (IsRecordingEntry(p) /\ Len(files[p]) >= MOVI_DATA_START
                  /\ HasFrameCount(files[p]))
                  => (p \in DOMAIN files' /\ files'[p] = files[p])]_vars

\* the repair pass has met a file with a frame count whose RIFF size is not
\* the one a repair writes, and the file is on the card
FinalizedFileKept ==
    /\ AfterRepairPass
    /\ \E p \in DOMAIN files :
          /\ IsRecordingEntry(p)
          /\ Len(files[p]) >= MOVI_DATA_START
          /\ Rd32(files[p], 48) = 2
          /\ Rd32(files[p], 4) # Len(files[p]) - 8

\* C15: repairRecordings attempts tryRepairAVI on every file of the recordings
\* directory whose name ends in .avi or .AVI, however many files there are:
\* after the pass no such file holds a zero total-frame-count field.
RepairCoversDirectory ==
    [][RepairPass
         => \A p \in DOMAIN files' :
               IsRecordingEntry(p) => HasFrameCount(files'[p])]_vars

\* the text of a filename contains the two characters ".."
ContainsParentToken(fn) ==
    \E i \in 1..(Len(fn) - 1) : fn[i] = "." /\ fn[i + 1] = "."

\* the components of the path a filename names below the recordings directory
NamedBelow(fn) ==
    SelectSeq(SplitPath(fn, 1, << >>), LAMBDA piece : piece # << >> /\ piece # << "." >>)

\* C19: deleteRecording rejects every filename that contains "..": it returns
\* false and the card is as before; for every other filename the only file
\* that can go is the one the filename names below the recordings directory.
DeleteStaysInFolder ==
    [][IsCall("deleteRecording")
         => /\ ContainsParentToken(deleteArg')
               => (~lastCall'.ret /\ files' = files)
            /\ \A p \in DOMAIN files :
                  /\ p \in DOMAIN files' => files'[p] = files[p]
                  /\ p \notin DOMAIN files'
                       => /\ lastCall'.ret
                          /\ PathOf(p) = << RECORDINGS_FOLDER >> \o NamedBelow(deleteArg')
            /\ DOMAIN files' \subseteq DOMAIN files]_vars

\* deleteRecording("../a") has returned false and the file /a is on the card
TraversalRejected ==
    /\ lastCall.op = "deleteRecording"
    /\ ~lastCall.ret
    /\ deleteArg = << ".", ".", "/", "a" >>
    /\ CardName(1) \in DOMAIN files
    /\ PathOf(CardName(1)) = << << "a" >> >>

\* a session with a frame index ends: finalizeAVI writes the index chunk
FinalizesWithIndex ==
    isRecording /\ ~isRecording' /\ powerLosses' = powerLosses
    /\ frameIndex = "allocated" /\ frameCount > 0

\* C21: the index chunk written at finalize lists the frames in capture
\* order: entry i (0-based) holds the offset sum over j < i of
\* (8 + s_j + (s_j mod 2)) and the size s_i, so that offsets are strictly
\* increasing.  (Sessions of the pacing specification: every s_i is the
\* length of PaceFrame.)
IndexInCaptureOrder ==
    [][FinalizesWithIndex
         => \A g \in HeapWords : \A i \in 1..frameCount :
               /\ PaceIndexEntry(i, g).offset
                    = (i - 1) * (8 + PaceFrame.len + (PaceFrame.len % 2))
               /\ PaceIndexEntry(i, g).size = PaceFrame.len
               /\ i > 1 => PaceIndexEntry(i, g).offset
                             > PaceIndexEntry(i - 1, g).offset]_vars

\* C21, for the sessions of Spec, on the bytes: the slots writeFrame fills
\* hold offset and size of their frames, and the index chunk stopRecording
\* appends holds, for each frame in order, '00dc', 0x10, offset and size.
IndexChunkListsSlots ==
    /\ []((isRecording /\ frameIndex = "allocated")
            => /\ Len(indexSlots) = frameCount
               /\ \A i \in 1..Len(indexSlots) :
                     /\ indexSlots[i].offset
                          = SumChunkLens(SubSeq(sessionSizes, 1, i - 1))
                     /\ indexSlots[i].size = sessionSizes[i])
    /\ [][(StopsActive /\ frameIndex = "allocated")
            => LET b == files'[currentFilename]
               IN \A i \in 1..frameCount :
                     LET at == totalBytes + 8 + 16 * (i - 1)
                     IN /\ HasTag00dc(b, at)
                        /\ Rd32(b, at + 4) = 16
                        /\ Rd32(b, at + 8)
                             = SumChunkLens(SubSeq(sessionSizes, 1, i - 1))
                        /\ Rd32(b, at + 12) = sessionSizes[i]]_vars

\* the files the repair pass of this step calls tryRepairAVI on
Attempted == UNION RepairBatches(files)

\* tryRepairAVI on b goes past the frame-count test
ScansFile(b) == Len(b) >= MOVI_DATA_START /\ Rd32(b, 48) = 0

\* C22: when tryRepairAVI finds a zero frame-count field and counts C >= 1
\* frame chunks, it writes RIFF size = file size - 8, frame-data-list size =
\* file size - 220 and C into both frame-count fields, appends nothing (the
\* length stays) and returns true.
RepairPatchValues ==
    [][RepairPass
         => \A p \in Attempted :
               (ScansFile(files[p]) /\ ScanFrames(files[p], MOVI_DATA_START, 0) >= 1)
                  => /\ p \in DOMAIN files'
                     /\ Len(files'[p]) = Len(files[p])
                     /\ Rd32(files'[p], 4) = Len(files[p]) - 8
                     /\ Rd32(files'[p], 216) = Len(files[p]) - 220
                     /\ Rd32(files'[p], 48) = ScanFrames(files[p], MOVI_DATA_START, 0)
                     /\ Rd32(files'[p], 140) = ScanFrames(files[p], MOVI_DATA_START, 0)
                     /\ RepairReturns(files[p])]_vars

\* the repair pass has patched a file that ends inside its second chunk
CutFilePatched ==
    /\ AfterRepairPass
    /\ \E p \in DOMAIN files :
          /\ IsRecordingEntry(p)
          /\ Len(files[p]) > MOVI_DATA_START + 10
          /\ Len(files[p]) < Len(CardStream(<< 2, 1 >>))
          /\ Rd32(files[p], 48) = 1 /\ Rd32(files[p], 140) = 1
          /\ Rd32(files[p], 4) = Len(files[p]) - 8
          /\ Rd32(files[p], 216) = Len(files[p]) - 220

\* the file b holds a whole '00dc' chunk at byte 224
FirstChunkComplete(b) ==
    /\ Len(b) >= MOVI_DATA_START + 8
    /\ HasTag00dc(b, MOVI_DATA_START)
    /\ ~Gt32(Rd32w(b, MOVI_DATA_START + 4), Len(b) - MOVI_DATA_START - 8)

\* C23: tryRepairAVI deletes the file and returns false when the file is
\* shorter than 224 bytes, or when its frame-count field is zero and no
\* complete '00dc' chunk is at byte 224; in no other case is a file deleted.
RepairDeletionPolicy ==
    [][RepairPass
         => /\ \A p \in Attempted :
                 /\ (p \notin DOMAIN files')
                      <=> \/ Len(files[p]) < MOVI_DATA_START
                          \/ /\ Rd32(files[p], 48) = 0
                             /\ ~FirstChunkComplete(files[p])
                 /\ (p \notin DOMAIN files') => ~RepairReturns(files[p])
            /\ \A p \in DOMAIN files \ Attempted : p \in DOMAIN files']_vars

RECURSIVE ChunksInside(_, _, _)
\* the n chunks from pos on lie inside b, each after the one before
ChunksInside(b, pos, n) ==
    \/ n = 0
    \/ /\ pos + 8 <= Len(b)
       /\ ~Gt32(Rd32w(b, pos + 4), Len(b) - pos - 8)
       /\ ChunksInside(b, pos + 8 + Int32(Rd32w(b, pos + 4))
                              + (Rd32w(b, pos + 4).lo % 2), n - 1)

\* C24: every chunk tryRepairAVI counts as a frame lies inside the file
\* (chunk start + 8 + declared length <= file size, without wrap-around) and
\* follows the chunk counted before it, for every declared length.
RepairScanInsideFile ==
    [][RepairPass
         => \A p \in Attempted :
               (ScansFile(files[p]) /\ p \in DOMAIN files')
                  => ChunksInside(files[p], MOVI_DATA_START, Rd32(files'[p], 48))]_vars

RECURSIVE EndOfChunks(_, _, _)
\* the offset after n chunks (pad bytes included) from pos on
EndOfChunks(b, pos, n) ==
    IF n = 0 THEN pos
    ELSE EndOfChunks(b, NextChunkPos(pos, Rd32w(b, pos + 4)), n - 1)

\* C27: after a successful tryRepairAVI the frame-data-list size (offset
\* 216) plus 220 is the end offset of the last chunk the scan counted (its
\* pad byte included): the list covers the recovered chunks and no bytes
\* of a partly written chunk or index after them.
RepairedListCoversChunks ==
    [][RepairPass
         => \A p \in Attempted :
               (ScansFile(files[p]) /\ p \in DOMAIN files')
                  => Rd32(files'[p], 216) + 220
                       = EndOfChunks(files[p], MOVI_DATA_START, Rd32(files'[p], 48))]_vars

\* C28: a second repair pass, run after a first one with nothing in
\* between, leaves every file's existence, length and bytes as the first
\* pass left them.  (In SpecCard the only power cycle is the one right
\* after a repair pass.)
RepairIdempotent ==
    [][(RepairPass /\ powerLosses >= 1) => files' = files]_vars

\* C25: every frame startRecording or update obtains from the camera is
\* released exactly once before the call returns, on every path (open
\* failure, write refused, frame written); between recorder calls no frame
\* buffer is held.
FramesReleased == borrowed = 0

\* an update that obtained a frame and appended it has returned
FrameWrittenAndReleased ==
    /\ lastCall = Call("update", TRUE, TRUE)
    /\ framesWritten >= 2
    /\ borrowed = 0

\* C26: whenever a session is active frameCount >= 1 (startRecording
\* appends the probe frame before it marks the session active), so that
\* every stop of an active session, by stopRecording or by update, takes
\* the finalize path: the current filename is kept and the file is not
\* removed.
ActiveSessionFinalizes ==
    /\ [](isRecording => frameCount >= 1)
    /\ [][(isRecording /\ ~isRecording' /\ powerLosses' = powerLosses)
            => /\ frameCount >= 1
               /\ currentFilename' = currentFilename
               /\ currentFilename' # NoName
               /\ currentFilename \in DOMAIN files
                    => currentFilename \in DOMAIN files']_vars

\* stopRecording has just ended a session and its file is on the card
StoppedSessionKeepsFile ==
    /\ lastCall = Call("stopRecording", TRUE, FALSE)
    /\ ~isRecording
    /\ frameCount >= 1
    /\ currentFilename \in DOMAIN files

\* C29: while a session is active its file is on the card, and no call
\* made during the session (deleteRecording with any filename, update,
\* a refused startRecording) removes it or makes it shorter.
ActiveFileStays ==
    /\ [](isRecording => currentFilename \in DOMAIN files)
    /\ [][(isRecording /\ isRecording')
            => /\ currentFilename \in DOMAIN files'
               /\ Len(files'[currentFilename]) >= Len(files[currentFilename])]_vars

=============================================================================
